---------------------------- MODULE Spec2Model ----------------------------
(***************************************************************************)
(* VF2 (sub)graph isomorphism of petgraph, src/src/algo/isomorphism.rs.    *)
(*                                                                         *)
(* Node ids are the dense indices 0..n-1 (NodeCompactIndexable), so        *)
(* to_index and from_index are the identity on them.  A vector of length n *)
(* is a function with domain 0..n-1.  Option<T> is a sequence: None is     *)
(* <<>> and Some(x) is <<x>>.  A tuple (x.0, x.1) is the pair <<x0, x1>>;  *)
(* field(x, j) reads x.j as the macro field! of is_feasible does.          *)
(***************************************************************************)
EXTENDS Integers, Sequences, FiniteSets, TLC

\* ------------------------------------------------------------------ bounds
\* Graphs without weights: at most MaxNodes nodes and MaxEdges undirected
\* edges or MaxArcs directed edges.  Graphs with weights in 0..MaxWeight: at
\* most MaxSemNodes nodes and MaxSemEdges edges.
MaxNodes == 3
MaxEdges == 3
MaxArcs == 2
MaxSemNodes == 2
MaxSemEdges == 2
MaxWeight == 1
\* The edges of the graphs whose sequences are pulled under fairness.
MaxLiveEdges == 1
\* The node counts for which the size estimate of a sequence is asked.
MaxHintNodes == 22
\* The rollbacks made by hand on a Match State.
MaxRollbacks == 2
MaxWideNodes == 4
MaxWideArcs == 3
\* The pulls a caller makes after the sequence first returned None.
MaxPullsAfterEnd == 2

\* usize::MAX, the "no mapping" sentinel (its value on a 16-bit target; only
\* its being larger than every node index matters).
USIZE_MAX == 65535

\* --------------------------------------------------------------- Option<T>
None == <<>>
Some(x) == <<x>>
is_some(o) == o # <<>>
is_none(o) == o = <<>>
unwrap(o) == o[1]

field(x, j) == x[j + 1]

Min(S) == CHOOSE x \in S : \A y \in S : x <= y

\* ------------------------------------------- graph capability surface (§6)
\* A graph is [directed, n, edges, nw, ew]: edges is a set of pairs <<u, v>>
\* without parallel edges; an undirected edge is stored once, as <<u, v>>
\* with u <= v.  nw and ew are the node and edge weights.
Nodes(g) == 0 .. (g.n - 1)

node_count(g) == g.n

edge_count(g) == Cardinality(g.edges)

is_directed(g) == g.directed

EdgeKey(g, a, b) == IF g.directed \/ a <= b THEN <<a, b>> ELSE <<b, a>>

is_adjacent(g, a, b) == EdgeKey(g, a, b) \in g.edges

\* neighbors_directed(a, dir); an undirected graph yields every neighbour in
\* either direction, a self-loop once.
neighbors_directed(g, a, dir) ==
    IF dir = "Outgoing"
    THEN {b \in Nodes(g) : is_adjacent(g, a, b)}
    ELSE {b \in Nodes(g) : is_adjacent(g, b, a)}

node_weight(g, a) == IF a \in Nodes(g) THEN Some(g.nw[a]) ELSE None

\* edges_directed(a, Outgoing).find(target == b).and_then(edge_weight)
edge_weight_between(g, a, b) ==
    IF is_adjacent(g, a, b) THEN Some(g.ew[EdgeKey(g, a, b)]) ELSE None

\* ------------------------------------------------------------ mod state
Vf2State_new(g) ==
    LET c0 == node_count(g) IN
    [ graph      |-> g,
      mapping    |-> [i \in 0 .. (c0 - 1) |-> USIZE_MAX],
      out        |-> [i \in 0 .. (c0 - 1) |-> 0],
      ins        |-> [i \in 0 .. (c0 * (IF is_directed(g) THEN 1 ELSE 0) - 1) |-> 0],
      out_size   |-> 0,
      ins_size   |-> 0,
      generation |-> 0 ]

is_complete(s) == s.generation = Cardinality(DOMAIN s.mapping)

push_mapping(s, from, to) ==
    LET gen    == s.generation + 1
        newOut == {ix \in neighbors_directed(s.graph, from, "Outgoing") : s.out[ix] = 0}
        newIns == IF is_directed(s.graph)
                  THEN {ix \in neighbors_directed(s.graph, from, "Incoming") : s.ins[ix] = 0}
                  ELSE {}
    IN  [ s EXCEPT
            !.generation = gen,
            !.mapping    = [@ EXCEPT ![from] = to],
            !.out        = [i \in DOMAIN @ |-> IF i \in newOut THEN gen ELSE @[i]],
            !.out_size   = @ + Cardinality(newOut),
            !.ins        = [i \in DOMAIN @ |-> IF i \in newIns THEN gen ELSE @[i]],
            !.ins_size   = @ + Cardinality(newIns) ]

\* Mutant: the mapping entry is not reset.
pop_mapping_keep_entry(s, from) ==
    LET oldOut == {ix \in neighbors_directed(s.graph, from, "Outgoing") :
                        s.out[ix] = s.generation}
        oldIns == IF is_directed(s.graph)
                  THEN {ix \in neighbors_directed(s.graph, from, "Incoming") :
                            s.ins[ix] = s.generation}
                  ELSE {}
    IN  [ s EXCEPT
            !.out        = [i \in DOMAIN @ |-> IF i \in oldOut THEN 0 ELSE @[i]],
            !.out_size   = @ - Cardinality(oldOut),
            !.ins        = [i \in DOMAIN @ |-> IF i \in oldIns THEN 0 ELSE @[i]],
            !.ins_size   = @ - Cardinality(oldIns),
            !.generation = @ - 1 ]

\* Mutant: every stamped neighbour is unstamped, whatever its generation.
pop_mapping_any_stamp(s, from) ==
    LET oldOut == {ix \in neighbors_directed(s.graph, from, "Outgoing") : s.out[ix] # 0}
        oldIns == IF is_directed(s.graph)
                  THEN {ix \in neighbors_directed(s.graph, from, "Incoming") : s.ins[ix] # 0}
                  ELSE {}
    IN  [ s EXCEPT
            !.mapping    = [@ EXCEPT ![from] = USIZE_MAX],
            !.out        = [i \in DOMAIN @ |-> IF i \in oldOut THEN 0 ELSE @[i]],
            !.out_size   = @ - Cardinality(oldOut),
            !.ins        = [i \in DOMAIN @ |-> IF i \in oldIns THEN 0 ELSE @[i]],
            !.ins_size   = @ - Cardinality(oldIns),
            !.generation = @ - 1 ]

pop_mapping(s, from) ==
    LET oldOut == {ix \in neighbors_directed(s.graph, from, "Outgoing") :
                        s.out[ix] = s.generation}
        oldIns == IF is_directed(s.graph)
                  THEN {ix \in neighbors_directed(s.graph, from, "Incoming") :
                            s.ins[ix] = s.generation}
                  ELSE {}
    IN  [ s EXCEPT
            !.mapping    = [@ EXCEPT ![from] = USIZE_MAX],
            !.out        = [i \in DOMAIN @ |-> IF i \in oldOut THEN 0 ELSE @[i]],
            !.out_size   = @ - Cardinality(oldOut),
            !.ins        = [i \in DOMAIN @ |-> IF i \in oldIns THEN 0 ELSE @[i]],
            !.ins_size   = @ - Cardinality(oldIns),
            !.generation = @ - 1 ]

\* The offset, from from_index, of the least index >= from_index that is
\* stamped in `list` and unmapped.
FindFrom(list, mapping, from_index) ==
    LET c == {i \in DOMAIN list : i >= from_index /\ list[i] > 0 /\ mapping[i] = USIZE_MAX}
    IN  IF c = {} THEN None ELSE Some(Min(c) - from_index)

next_out_index(s, from_index) == FindFrom(s.out, s.mapping, from_index)

next_in_index(s, from_index) ==
    IF ~is_directed(s.graph) THEN None ELSE FindFrom(s.ins, s.mapping, from_index)

next_rest_index(s, from_index) ==
    LET c == {i \in DOMAIN s.mapping : i >= from_index /\ s.mapping[i] = USIZE_MAX}
    IN  IF c = {} THEN None ELSE Some(Min(c) - from_index)

\* --------------------------------------------------------- mod semantic
\* A matcher is "NoSemanticMatch" or the name of a caller's closure.
NodeWeightClosure(f, x, y) ==
    CASE f = "accept_all" -> TRUE
      [] f = "le"         -> x <= y
      [] f = "reject_all" -> FALSE

EdgeWeightClosure(f, x, y) ==
    CASE f = "accept_all" -> TRUE
      [] f = "le"         -> x <= y
      [] f = "reject_all" -> FALSE

\* Mutant: the closure's matcher reports itself disabled.
NodeMatcher_enabled_never(nm) == FALSE

NodeMatcher_enabled(nm) == nm # "NoSemanticMatch"

NodeMatcher_eq(nm, g0, g1, n0, n1) ==
    IF nm = "NoSemanticMatch" THEN TRUE
    ELSE LET x == node_weight(g0, n0)
             y == node_weight(g1, n1)
         IN  IF is_some(x) /\ is_some(y)
             THEN NodeWeightClosure(nm, unwrap(x), unwrap(y))
             ELSE FALSE

EdgeMatcher_enabled(em) == em # "NoSemanticMatch"

\* Mutant: the closure is given the weight of g1's edge first.
EdgeMatcher_eq_swapped(em, g0, g1, e0, e1) ==
    IF em = "NoSemanticMatch" THEN TRUE
    ELSE LET w0 == edge_weight_between(g0, e0[1], e0[2])
             w1 == edge_weight_between(g1, e1[1], e1[2])
         IN  IF is_some(w0) /\ is_some(w1)
             THEN EdgeWeightClosure(em, unwrap(w1), unwrap(w0))
             ELSE FALSE

EdgeMatcher_eq(em, g0, g1, e0, e1) ==
    IF em = "NoSemanticMatch" THEN TRUE
    ELSE LET w0 == edge_weight_between(g0, e0[1], e0[2])
             w1 == edge_weight_between(g1, e1[1], e1[2])
         IN  IF is_some(w0) /\ is_some(w1)
             THEN EdgeWeightClosure(em, unwrap(w0), unwrap(w1))
             ELSE FALSE

\* --------------------------------------------------------- mod matching
\* A frame; Outer carries no pair and no list.
Outer == [kind |-> "Outer", nodes |-> <<>>, open_list |-> "-"]
Inner(nodes, open_list) == [kind |-> "Inner", nodes |-> nodes, open_list |-> open_list]
Unwind(nodes, open_list) == [kind |-> "Unwind", nodes |-> nodes, open_list |-> open_list]

\* Mutant: the self-loop is looked up in the mapping like any neighbour.
m_neigh_succ_stale(st, nodes, j, n_neigh) == field(st, j).mapping[n_neigh]

\* The mapped image of neighbour n_neigh of nodes.j; a self-loop is looked up
\* as the other side's candidate, it is not in the mapping (yet).
m_neigh_succ(st, nodes, j, n_neigh) ==
    IF field(nodes, j) # n_neigh
    THEN field(st, j).mapping[n_neigh]
    ELSE field(nodes, 1 - j)

\* Mutant: succ_count counts the mapped neighbours only.
r_succ_mapped_only(st, nodes, j) ==
    LET neigh == neighbors_directed(field(st, j).graph, field(nodes, j), "Outgoing")
        miss(n_neigh) ==
            LET m_neigh == m_neigh_succ(st, nodes, j, n_neigh)
            IN  /\ m_neigh # USIZE_MAX
                /\ ~is_adjacent(field(st, 1 - j).graph, field(nodes, 1 - j), m_neigh)
    IN  IF \E n_neigh \in neigh : miss(n_neigh)
        THEN None
        ELSE Some(Cardinality({n_neigh \in neigh :
                                  m_neigh_succ(st, nodes, j, n_neigh) # USIZE_MAX}))

\* Mutant: the image is tested as a predecessor of the other candidate.
r_succ_swapped(st, nodes, j) ==
    LET neigh == neighbors_directed(field(st, j).graph, field(nodes, j), "Outgoing")
        miss(n_neigh) ==
            LET m_neigh == m_neigh_succ(st, nodes, j, n_neigh)
            IN  /\ m_neigh # USIZE_MAX
                /\ ~is_adjacent(field(st, 1 - j).graph, m_neigh, field(nodes, 1 - j))
    IN  IF \E n_neigh \in neigh : miss(n_neigh)
        THEN None
        ELSE Some(Cardinality(neigh))

\* r_succ!(j): None when the macro returns false from is_feasible, else
\* Some(succ_count).
r_succ(st, nodes, j) ==
    LET neigh == neighbors_directed(field(st, j).graph, field(nodes, j), "Outgoing")
        miss(n_neigh) ==
            LET m_neigh == m_neigh_succ(st, nodes, j, n_neigh)
            IN  /\ m_neigh # USIZE_MAX
                /\ ~is_adjacent(field(st, 1 - j).graph, field(nodes, 1 - j), m_neigh)
    IN  IF \E n_neigh \in neigh : miss(n_neigh)
        THEN None
        ELSE Some(Cardinality(neigh))

\* Mutant: the incoming neighbours are counted but their images not tested.
r_pred_count_only(st, nodes, j) ==
    Some(Cardinality(neighbors_directed(field(st, j).graph, field(nodes, j), "Incoming")))

\* r_pred!(j), likewise over the incoming neighbours.
r_pred(st, nodes, j) ==
    LET neigh == neighbors_directed(field(st, j).graph, field(nodes, j), "Incoming")
        miss(n_neigh) ==
            LET m_neigh == field(st, j).mapping[n_neigh]
            IN  /\ m_neigh # USIZE_MAX
                /\ ~is_adjacent(field(st, 1 - j).graph, m_neigh, field(nodes, 1 - j))
    IN  IF \E n_neigh \in neigh : miss(n_neigh)
        THEN None
        ELSE Some(Cardinality(neigh))

\* edge_feasibility!(j): FALSE when the macro returns false from is_feasible.
edge_feasibility(st, nodes, j, edge_match) ==
    LET me == field(st, j)
        g0 == st[1].graph
        g1 == st[2].graph
        okOut(n_neigh) ==
            LET m_neigh == m_neigh_succ(st, nodes, j, n_neigh)
                e0 == <<field(nodes, j), n_neigh>>
                e1 == <<field(nodes, 1 - j), m_neigh>>
                edges == <<e0, e1>>
            IN  \/ m_neigh = USIZE_MAX
                \/ EdgeMatcher_eq(edge_match, g0, g1, field(edges, j), field(edges, 1 - j))
        okIn(n_neigh) ==
            LET m_neigh == me.mapping[n_neigh]
                e0 == <<n_neigh, field(nodes, j)>>
                e1 == <<m_neigh, field(nodes, 1 - j)>>
                edges == <<e0, e1>>
            IN  \/ m_neigh = USIZE_MAX
                \/ EdgeMatcher_eq(edge_match, g0, g1, field(edges, j), field(edges, 1 - j))
    IN  /\ \A n_neigh \in neighbors_directed(me.graph, field(nodes, j), "Outgoing") :
              okOut(n_neigh)
        /\ is_directed(me.graph) =>
              \A n_neigh \in neighbors_directed(me.graph, field(nodes, j), "Incoming") :
                  okIn(n_neigh)

\* Mutant: only the neighbours of nodes.0 are checked, not those of nodes.1.
syntactic_feasible_forward_only(st, nodes) ==
    /\ is_some(r_succ(st, nodes, 0))
    /\ is_directed(st[1].graph) => is_some(r_pred(st, nodes, 0))

\* The structural rules R_succ and R_pred of is_feasible.
syntactic_feasible(st, nodes) ==
    LET s0 == r_succ(st, nodes, 0)
        s1 == r_succ(st, nodes, 1)
        p0 == r_pred(st, nodes, 0)
        p1 == r_pred(st, nodes, 1)
    IN  IF is_none(s0) \/ is_none(s1) \/ unwrap(s0) > unwrap(s1)
        THEN FALSE
        ELSE IF is_directed(st[1].graph)
                /\ (is_none(p0) \/ is_none(p1) \/ unwrap(p0) > unwrap(p1))
        THEN FALSE
        ELSE TRUE

is_feasible(st, nodes, node_match, edge_match) ==
    IF ~syntactic_feasible(st, nodes)
    THEN FALSE
    ELSE IF NodeMatcher_enabled(node_match)
            /\ ~NodeMatcher_eq(node_match, st[1].graph, st[2].graph, nodes[1], nodes[2])
    THEN FALSE
    ELSE IF EdgeMatcher_enabled(edge_match)
            /\ ~(edge_feasibility(st, nodes, 0, edge_match)
                 /\ edge_feasibility(st, nodes, 1, edge_match))
    THEN FALSE
    ELSE TRUE

\* Mutant: the node predicate is asked before the structural rules.
is_feasible_invokes_node_first(st, nodes, node_match, edge_match) ==
    [node |-> NodeMatcher_enabled(node_match), edge |-> FALSE]

\* The invocations is_feasible(st, nodes, ..) makes of the matchers' eq:
\* node, whether node_match.eq is called; edge, whether edge_match.eq is
\* called at least once (edge_feasibility!(0) meets a mapped neighbour or a
\* self-loop, or it passes and edge_feasibility!(1) meets one).
is_feasible_invokes(st, nodes, node_match, edge_match) ==
    LET met(j) ==
            \/ \E n_neigh \in neighbors_directed(field(st, j).graph, field(nodes, j), "Outgoing") :
                  m_neigh_succ(st, nodes, j, n_neigh) # USIZE_MAX
            \/ /\ is_directed(field(st, j).graph)
               /\ \E n_neigh \in neighbors_directed(field(st, j).graph, field(nodes, j), "Incoming") :
                     field(st, j).mapping[n_neigh] # USIZE_MAX
    IN  IF ~syntactic_feasible(st, nodes)
        THEN [node |-> FALSE, edge |-> FALSE]
        ELSE IF NodeMatcher_enabled(node_match)
                /\ ~NodeMatcher_eq(node_match, st[1].graph, st[2].graph, nodes[1], nodes[2])
        THEN [node |-> TRUE, edge |-> FALSE]
        ELSE [node |-> NodeMatcher_enabled(node_match),
              edge |-> /\ EdgeMatcher_enabled(edge_match)
                       /\ \/ met(0)
                          \/ edge_feasibility(st, nodes, 0, edge_match) /\ met(1)]

\* Mutant: the list of the remaining nodes is never tried.
next_candidate_no_other(st) ==
    LET to1   == next_out_index(st[2], 0)
        from1 == IF is_some(to1) THEN next_out_index(st[1], 0) ELSE None
        tryIn == is_none(to1) \/ is_none(from1)
        to2   == IF tryIn THEN next_in_index(st[2], 0) ELSE to1
        from2 == IF tryIn /\ is_some(to2) THEN next_in_index(st[1], 0) ELSE from1
        list2 == IF tryIn /\ is_some(to2) THEN "In" ELSE "Out"
    IN  IF is_some(from2) /\ is_some(to2)
        THEN Some(<<unwrap(from2), unwrap(to2), list2>>)
        ELSE None

next_candidate(st) ==
    LET to1   == next_out_index(st[2], 0)
        from1 == IF is_some(to1) THEN next_out_index(st[1], 0) ELSE None
        tryIn == is_none(to1) \/ is_none(from1)
        to2   == IF tryIn THEN next_in_index(st[2], 0) ELSE to1
        from2 == IF tryIn /\ is_some(to2) THEN next_in_index(st[1], 0) ELSE from1
        list2 == IF tryIn /\ is_some(to2) THEN "In" ELSE "Out"
        tryOther == is_none(to2) \/ is_none(from2)
        to3   == IF tryOther THEN next_rest_index(st[2], 0) ELSE to2
        from3 == IF tryOther /\ is_some(to3) THEN next_rest_index(st[1], 0) ELSE from2
        list3 == IF tryOther /\ is_some(to3) THEN "Other" ELSE list2
    IN  IF is_some(from3) /\ is_some(to3)
        THEN Some(<<unwrap(from3), unwrap(to3), list3>>)
        ELSE None

\* Mutant: the scan resumes in the remainder list whatever the tag.
next_from_ix_any_list(st, nx, open_list) ==
    LET start == nx + 1
        found == next_rest_index(st[2], start)
    IN  IF is_none(found) THEN None ELSE Some(unwrap(found) + start)

\* Mutant: the scan resumes one index too far.
next_from_ix_skip(st, nx, open_list) ==
    LET start == nx + 2
        found == CASE open_list = "Out"   -> next_out_index(st[2], start)
                   [] open_list = "In"    -> next_in_index(st[2], start)
                   [] open_list = "Other" -> next_rest_index(st[2], start)
    IN  IF is_none(found) THEN None ELSE Some(unwrap(found) + start)

next_from_ix(st, nx, open_list) ==
    LET start == nx + 1
        found == CASE open_list = "Out"   -> next_out_index(st[2], start)
                   [] open_list = "In"    -> next_in_index(st[2], start)
                   [] open_list = "Other" -> next_rest_index(st[2], start)
    IN  IF is_none(found) THEN None ELSE Some(unwrap(found) + start)

pop_state(st, nodes) ==
    << pop_mapping(st[1], nodes[1]), pop_mapping(st[2], nodes[2]) >>

\* Mutant: the second state records its own node instead of the other's.
push_state_own_index(st, nodes) ==
    << push_mapping(st[1], nodes[1], nodes[2]), push_mapping(st[2], nodes[2], nodes[2]) >>

push_state(st, nodes) ==
    << push_mapping(st[1], nodes[1], nodes[2]), push_mapping(st[2], nodes[2], nodes[1]) >>

\* Mutant: the exact test is applied in subgraph mode too.
lookahead_exact_only(st, match_subgraph) ==
    /\ st[1].out_size = st[2].out_size
    /\ st[1].ins_size = st[2].ins_size

\* The look-ahead test on the cardinalities of the Tin, Tout sets.
lookahead(st, match_subgraph) ==
    \/ /\ ~match_subgraph
       /\ st[1].out_size = st[2].out_size
       /\ st[1].ins_size = st[2].ins_size
    \/ /\ match_subgraph
       /\ st[1].out_size <= st[2].out_size
       /\ st[1].ins_size <= st[2].ins_size

\* Mutant: backtracking forgets a recorded result.
Frame_Unwind_forgets(m, nodes, open_list, node_match, edge_match, match_subgraph) ==
    LET st1 == pop_state(m.st, nodes)
        nx  == next_from_ix(st1, nodes[2], open_list)
    IN  IF is_none(nx)
        THEN [st |-> st1, stack |-> m.stack, result |-> None, check |-> FALSE]
        ELSE [st |-> st1,
              stack |-> Append(m.stack, Inner(<<nodes[1], unwrap(nx)>>, open_list)),
              result |-> None, check |-> TRUE]

\* The body of `while let Some(frame) = stack.pop()` for each kind of frame.
\* m is [st, stack, result] with the frame already popped; the value adds
\* check: TRUE when the iteration reaches `if result.is_some()` at the end
\* of the loop body, FALSE when it leaves by `continue`.
Frame_Unwind(m, nodes, open_list, node_match, edge_match, match_subgraph) ==
    LET st1 == pop_state(m.st, nodes)
        nx  == next_from_ix(st1, nodes[2], open_list)
    IN  IF is_none(nx)
        THEN [st |-> st1, stack |-> m.stack, result |-> m.result, check |-> FALSE]
        ELSE [st |-> st1,
              stack |-> Append(m.stack, Inner(<<nodes[1], unwrap(nx)>>, open_list)),
              result |-> m.result, check |-> TRUE]

Frame_Outer(m, nodes, open_list, node_match, edge_match, match_subgraph) ==
    LET c == next_candidate(m.st)
    IN  IF is_none(c)
        THEN [st |-> m.st, stack |-> m.stack, result |-> m.result, check |-> FALSE]
        ELSE [st |-> m.st,
              stack |-> Append(m.stack, Inner(<<unwrap(c)[1], unwrap(c)[2]>>, unwrap(c)[3])),
              result |-> m.result, check |-> TRUE]

Frame_Inner(m, nodes, open_list, node_match, edge_match, match_subgraph) ==
    LET feasible == is_feasible(m.st, nodes, node_match, edge_match)
        st1      == push_state(m.st, nodes)
        result1  == IF feasible /\ is_complete(st1[1])
                    THEN Some(st1[1].mapping)
                    ELSE m.result
        deepen   == feasible /\ lookahead(st1, match_subgraph)
        st2      == IF feasible THEN pop_state(st1, nodes) ELSE m.st
        nx       == next_from_ix(st2, nodes[2], open_list)
    IN  IF deepen
        THEN [st |-> st1,
              stack |-> m.stack \o << Unwind(nodes, open_list), Outer >>,
              result |-> result1, check |-> FALSE]
        ELSE IF is_none(nx)
        THEN [st |-> st2, stack |-> m.stack, result |-> result1, check |-> FALSE]
        ELSE [st |-> st2,
              stack |-> Append(m.stack, Inner(<<nodes[1], unwrap(nx)>>, open_list)),
              result |-> result1, check |-> TRUE]

\* One iteration of the loop of isomorphisms: pop a frame and process it.
frame_step(m, node_match, edge_match, match_subgraph) ==
    LET frame  == m.stack[Len(m.stack)]
        popped == [m EXCEPT !.stack = SubSeq(@, 1, Len(@) - 1)]
    IN  CASE frame.kind = "Unwind" ->
               Frame_Unwind(popped, frame.nodes, frame.open_list,
                            node_match, edge_match, match_subgraph)
          [] frame.kind = "Outer" ->
               Frame_Outer(popped, frame.nodes, frame.open_list,
                           node_match, edge_match, match_subgraph)
          [] frame.kind = "Inner" ->
               Frame_Inner(popped, frame.nodes, frame.open_list,
                           node_match, edge_match, match_subgraph)

\* isomorphisms(st, node_match, edge_match, match_subgraph, stack): the loop
\* run from m = [st, stack, result] until it returns; the value is
\* [st, stack, result] with result the value returned.
RECURSIVE isomorphisms_loop(_, _, _, _)
isomorphisms_loop(m, node_match, edge_match, match_subgraph) ==
    IF m.stack = <<>>
    THEN m
    ELSE LET m1 == frame_step(m, node_match, edge_match, match_subgraph)
             m2 == [st |-> m1.st, stack |-> m1.stack, result |-> m1.result]
         IN  IF m1.check /\ is_some(m1.result)
             THEN m2
             ELSE isomorphisms_loop(m2, node_match, edge_match, match_subgraph)

isomorphisms(st0, node_match, edge_match, match_subgraph, stack0) ==
    isomorphisms_loop([st |-> st0, stack |-> stack0, result |-> None],
                      node_match, edge_match, match_subgraph)

\* Mutant: no override for an initial state that is already complete.
GraphMatcher_new_no_override(g0, g1, node_match, edge_match, match_subgraph) ==
    [ st             |-> << Vf2State_new(g0), Vf2State_new(g1) >>,
      node_match     |-> node_match,
      edge_match     |-> edge_match,
      match_subgraph |-> match_subgraph,
      stack          |-> << Outer >>,
      iter_override  |-> None ]

GraphMatcher_new(g0, g1, node_match, edge_match, match_subgraph) ==
    LET st0 == << Vf2State_new(g0), Vf2State_new(g1) >>
    IN  [ st             |-> st0,
          node_match     |-> node_match,
          edge_match     |-> edge_match,
          match_subgraph |-> match_subgraph,
          stack          |-> << Outer >>,
          iter_override  |-> IF is_complete(st0[1])
                             THEN Some(Some(st0[1].mapping))
                             ELSE None ]

\* Iterator::next: [gm, item] with gm the matcher afterwards and item the
\* Option returned.
GraphMatcher_next(gm) ==
    IF is_some(gm.iter_override)
    THEN [gm |-> [gm EXCEPT !.iter_override = Some(None)], item |-> unwrap(gm.iter_override)]
    ELSE LET r == isomorphisms(gm.st, gm.node_match, gm.edge_match,
                               gm.match_subgraph, gm.stack)
         IN  [gm |-> [gm EXCEPT !.st = r.st, !.stack = r.stack], item |-> r.result]

\* The u64 literals 0!..20! of size_hint, as decimal digits (they exceed the
\* integers of the checker).
FactorialLiterals ==
    << <<1>>, <<1>>, <<2>>, <<6>>, <<2, 4>>, <<1, 2, 0>>, <<7, 2, 0>>,
       <<5, 0, 4, 0>>, <<4, 0, 3, 2, 0>>, <<3, 6, 2, 8, 8, 0>>,
       <<3, 6, 2, 8, 8, 0, 0>>, <<3, 9, 9, 1, 6, 8, 0, 0>>,
       <<4, 7, 9, 0, 0, 1, 6, 0, 0>>, <<6, 2, 2, 7, 0, 2, 0, 8, 0, 0>>,
       <<8, 7, 1, 7, 8, 2, 9, 1, 2, 0, 0>>,
       <<1, 3, 0, 7, 6, 7, 4, 3, 6, 8, 0, 0, 0>>,
       <<2, 0, 9, 2, 2, 7, 8, 9, 8, 8, 8, 0, 0, 0>>,
       <<3, 5, 5, 6, 8, 7, 4, 2, 8, 0, 9, 6, 0, 0, 0>>,
       <<6, 4, 0, 2, 3, 7, 3, 7, 0, 5, 7, 2, 8, 0, 0, 0>>,
       <<1, 2, 1, 6, 4, 5, 1, 0, 0, 4, 0, 8, 8, 3, 2, 0, 0, 0>>,
       <<2, 4, 3, 2, 9, 0, 2, 0, 0, 8, 1, 7, 6, 6, 4, 0, 0, 0, 0>> >>

\* The largest usize of a 64-bit target, 2^64 - 1, as decimal digits.
USIZE_64_MAX == <<1, 8, 4, 4, 6, 7, 4, 4, 0, 7, 3, 7, 0, 9, 5, 5, 1, 6, 1, 5>>

\* a <= b for numbers written as decimal digits without leading zeros.
DigitsLeq(a, b) ==
    \/ Len(a) < Len(b)
    \/ /\ Len(a) = Len(b)
       /\ \/ a = b
          \/ \E i \in 1 .. Len(a) :
                /\ a[i] < b[i]
                /\ \A k \in 1 .. (i - 1) : a[k] = b[k]

\* usize::try_from(n).ok() of a u64.
usize_try_from(n) == IF DigitsLeq(n, USIZE_64_MAX) THEN Some(n) ELSE None

upper_bounds == [i \in 1 .. Len(FactorialLiterals) |-> usize_try_from(FactorialLiterals[i])]

\* Iterator::size_hint: [panicked, value]; upper_bounds[n] panics when n is
\* not below upper_bounds.len().
size_hint(gm) ==
    LET n == node_count(gm.st[1].graph)
    IN  IF n > Len(upper_bounds)
        THEN [panicked |-> FALSE, value |-> <<0, None>>]
        ELSE IF n < Len(upper_bounds)
        THEN [panicked |-> FALSE, value |-> <<0, upper_bounds[n + 1]>>]
        ELSE [panicked |-> TRUE, value |-> <<>>]

\* ------------------------------------------------------ public query layer
\* Mutants: the preconditions compare the node counts only.
counts_differ_nodes_only(g0, g1) == node_count(g0) # node_count(g1)

counts_exceed_nodes_only(g0, g1) == node_count(g0) > node_count(g1)

\* Mutant: the exact precondition lets a smaller g0 through.
counts_differ_one_sided(g0, g1) ==
    node_count(g0) > node_count(g1) \/ edge_count(g0) > edge_count(g1)

\* The count preconditions of the exact and of the subgraph queries.
counts_differ(g0, g1) ==
    node_count(g0) # node_count(g1) \/ edge_count(g0) # edge_count(g1)

counts_exceed(g0, g1) ==
    node_count(g0) > node_count(g1) \/ edge_count(g0) > edge_count(g1)

is_isomorphic(g0, g1) ==
    IF counts_differ(g0, g1)
    THEN FALSE
    ELSE is_some(GraphMatcher_next(
            GraphMatcher_new(g0, g1, "NoSemanticMatch", "NoSemanticMatch", FALSE)).item)

is_isomorphic_matching(g0, g1, node_match, edge_match) ==
    IF counts_differ(g0, g1)
    THEN FALSE
    ELSE is_some(GraphMatcher_next(
            GraphMatcher_new(g0, g1, node_match, edge_match, FALSE)).item)

is_isomorphic_subgraph(g0, g1) ==
    IF counts_exceed(g0, g1)
    THEN FALSE
    ELSE is_some(GraphMatcher_next(
            GraphMatcher_new(g0, g1, "NoSemanticMatch", "NoSemanticMatch", TRUE)).item)

is_isomorphic_subgraph_matching(g0, g1, node_match, edge_match) ==
    IF counts_exceed(g0, g1)
    THEN FALSE
    ELSE is_some(GraphMatcher_next(
            GraphMatcher_new(g0, g1, node_match, edge_match, TRUE)).item)

subgraph_isomorphisms_iter(g0, g1, node_match, edge_match) ==
    IF counts_exceed(g0, g1)
    THEN None
    ELSE Some(GraphMatcher_new(g0, g1, node_match, edge_match, TRUE))

\* ------------------------------------------------------------ the inputs
PossibleEdges(d, n) ==
    {e \in (0 .. (n - 1)) \X (0 .. (n - 1)) : d \/ e[1] <= e[2]}

\* Every graph of edge type d with at most maxN nodes and maxE edges whose
\* weights are in 0..maxW.
GraphsOf(d, maxN, maxE, maxW) ==
    UNION { UNION { { [directed |-> d, n |-> n, edges |-> E, nw |-> nw, ew |-> ew] :
                        nw \in [0 .. (n - 1) -> 0 .. maxW], ew \in [E -> 0 .. maxW] } :
                    E \in {F \in SUBSET PossibleEdges(d, n) : Cardinality(F) <= maxE} } :
            n \in 0 .. maxN }

ExactQueries == {"is_isomorphic", "is_isomorphic_matching"}
SubgraphQueries == {"is_isomorphic_subgraph", "is_isomorphic_subgraph_matching",
                    "subgraph_isomorphisms_iter"}
MatchingQueries == {"is_isomorphic_matching", "is_isomorphic_subgraph_matching",
                    "subgraph_isomorphisms_iter"}

\* ----------------------------------------------------- the state machine
VARIABLES
    g0, g1,           \* the two graphs of the query
    query,            \* the public function called
    node_match,       \* its node matcher
    edge_match,       \* its edge matcher
    pc,               \* "call", "idle" (a matcher exists, between pulls),
                      \* "running" (inside the loop of isomorphisms), "done"
    st,               \* GraphMatcher.st: the pair of Vf2State, None before new
    stack,            \* GraphMatcher.stack
    iter_override,    \* GraphMatcher.iter_override
    match_subgraph,   \* GraphMatcher.match_subgraph
    result,           \* the local `result` of isomorphisms
    ret,              \* None while pending; Some(b): the boolean returned, or
                      \* whether subgraph_isomorphisms_iter returned a sequence
    yields,           \* the items returned by next(), in order
    frames,           \* the number of frames popped and processed so far
    after_end,        \* the number of pulls that returned None
    hint,             \* the outcome of size_hint(), None before it is asked
    trail,            \* the pairs committed to st by hand, oldest first
    lifo,             \* every rollback by hand undid the latest commit
    undone,           \* the number of rollbacks by hand
    invoked           \* which matchers' eq the latest frame step called

vars == << g0, g1, query, node_match, edge_match, pc, st, stack, iter_override,
           match_subgraph, result, ret, yields, frames, after_end, hint, trail,
           lifo, undone, invoked >>

\* What the queries leave alone.
others == << hint, trail, lifo, undone >>

\* No matcher was called.
NoCalls == [node |-> FALSE, edge |-> FALSE]

inputs == << g0, g1, query, node_match, edge_match >>

PlainGraphs(d) == GraphsOf(d, MaxNodes, IF d THEN MaxArcs ELSE MaxEdges, 0)

SmallPlainGraphs(d) == GraphsOf(d, MaxSemNodes, MaxSemEdges, 0)

WeightedGraphs(d) == GraphsOf(d, MaxSemNodes, MaxSemEdges, MaxWeight)

\* The state before the public function runs.
Fresh ==
    /\ pc = "call"
    /\ st = None
    /\ stack = <<>>
    /\ iter_override = None
    /\ match_subgraph = FALSE
    /\ result = None
    /\ ret = None
    /\ yields = <<>>
    /\ frames = 0
    /\ after_end = 0
    /\ hint = None
    /\ trail = <<>>
    /\ lifo = TRUE
    /\ undone = 0
    /\ invoked = NoCalls

\* Structural queries: graphs without weights, up to MaxNodes nodes.
Init ==
    /\ \E d \in BOOLEAN :
         /\ g0 \in PlainGraphs(d)
         /\ g1 \in PlainGraphs(d)
    /\ \/ /\ query \in {"is_isomorphic", "is_isomorphic_subgraph"}
          /\ node_match = "NoSemanticMatch"
          /\ edge_match = "NoSemanticMatch"
       \/ /\ query = "subgraph_isomorphisms_iter"
          /\ node_match = "accept_all"
          /\ edge_match = "accept_all"
       \/ /\ query = "is_isomorphic_matching"
          /\ node_match = "reject_all"
          /\ edge_match = "accept_all"
    /\ Fresh

\* Semantic queries: graphs with weights, up to MaxSemNodes nodes, and every
\* public function.
InitSem ==
    /\ \E d \in BOOLEAN :
         \/ /\ query \in MatchingQueries
            /\ node_match = "le"
            /\ edge_match = "le"
            /\ g0 \in WeightedGraphs(d)
            /\ g1 \in WeightedGraphs(d)
         \/ /\ query \in {"is_isomorphic", "is_isomorphic_subgraph"}
            /\ node_match = "NoSemanticMatch"
            /\ edge_match = "NoSemanticMatch"
            /\ g0 \in SmallPlainGraphs(d)
            /\ g1 \in SmallPlainGraphs(d)
    /\ Fresh

\* The public function returns at its count precondition: no matcher is built.
CallRejected ==
    /\ pc = "call"
    /\ IF query \in ExactQueries THEN counts_differ(g0, g1) ELSE counts_exceed(g0, g1)
    /\ pc' = "done"
    /\ ret' = Some(FALSE)
    /\ UNCHANGED << inputs, st, stack, iter_override, match_subgraph, result,
                    yields, frames, after_end, others, invoked >>

\* The public function passes its precondition and builds the GraphMatcher.
CallAccepted ==
    /\ pc = "call"
    /\ ~(IF query \in ExactQueries THEN counts_differ(g0, g1) ELSE counts_exceed(g0, g1))
    /\ LET gm == GraphMatcher_new(g0, g1, node_match, edge_match, query \in SubgraphQueries)
       IN  /\ st' = gm.st
           /\ stack' = gm.stack
           /\ iter_override' = gm.iter_override
           /\ match_subgraph' = gm.match_subgraph
    /\ pc' = "idle"
    /\ ret' = IF query = "subgraph_isomorphisms_iter" THEN Some(TRUE) ELSE None
    /\ UNCHANGED << inputs, result, yields, frames, after_end, others, invoked >>

\* next() returns item: the boolean queries return .is_some() of their one
\* pull, the caller of subgraph_isomorphisms_iter keeps the sequence.
Deliver(item) ==
    /\ yields' = Append(yields, item)
    /\ result' = None
    /\ IF query = "subgraph_isomorphisms_iter"
       THEN /\ pc' = "idle"
            /\ after_end' = after_end + (IF is_none(item) THEN 1 ELSE 0)
            /\ UNCHANGED ret
       ELSE /\ pc' = "done"
            /\ ret' = Some(is_some(item))
            /\ UNCHANGED after_end

\* next() with the one-shot override set: iter.take().
NextOverride ==
    /\ pc = "idle"
    /\ after_end <= MaxPullsAfterEnd
    /\ is_some(iter_override)
    /\ iter_override' = Some(None)
    /\ Deliver(unwrap(iter_override))
    /\ UNCHANGED << inputs, st, stack, match_subgraph, frames, others, invoked >>

\* next() without override: enter isomorphisms with result = None.
NextEnter ==
    /\ pc = "idle"
    /\ after_end <= MaxPullsAfterEnd
    /\ is_none(iter_override)
    /\ pc' = "running"
    /\ result' = None
    /\ UNCHANGED << inputs, st, stack, iter_override, match_subgraph, ret, yields,
                    frames, after_end, others, invoked >>

\* The end of one iteration of the loop of isomorphisms: m1 is the machine
\* after the frame was processed; the loop returns result if it is set and
\* the iteration reached the test at the end of the loop body.
RunFrame(m1) ==
    /\ st' = m1.st
    /\ stack' = m1.stack
    /\ frames' = frames + 1
    /\ IF m1.check /\ is_some(m1.result)
       THEN Deliver(m1.result)
       ELSE /\ result' = m1.result
            /\ UNCHANGED << pc, ret, yields, after_end >>
    /\ invoked' = IF stack[Len(stack)].kind = "Inner"
                  THEN is_feasible_invokes(st, stack[Len(stack)].nodes,
                                           node_match, edge_match)
                  ELSE NoCalls
    /\ UNCHANGED << inputs, iter_override, match_subgraph, others >>

StepUnwind ==
    /\ pc = "running"
    /\ stack # <<>>
    /\ stack[Len(stack)].kind = "Unwind"
    /\ RunFrame(frame_step([st |-> st, stack |-> stack, result |-> result],
                           node_match, edge_match, match_subgraph))

StepOuter ==
    /\ pc = "running"
    /\ stack # <<>>
    /\ stack[Len(stack)].kind = "Outer"
    /\ RunFrame(frame_step([st |-> st, stack |-> stack, result |-> result],
                           node_match, edge_match, match_subgraph))

StepInner ==
    /\ pc = "running"
    /\ stack # <<>>
    /\ stack[Len(stack)].kind = "Inner"
    /\ RunFrame(frame_step([st |-> st, stack |-> stack, result |-> result],
                           node_match, edge_match, match_subgraph))

\* Mutant: the exhausted matcher is left with a fresh Outer frame.
LoopExit_reseed ==
    /\ pc = "running"
    /\ stack = <<>>
    /\ stack' = << Outer >>
    /\ Deliver(result)
    /\ UNCHANGED << inputs, st, iter_override, match_subgraph, frames, others, invoked >>

\* The stack is empty: the loop ends and isomorphisms returns result.
LoopExit ==
    /\ pc = "running"
    /\ stack = <<>>
    /\ Deliver(result)
    /\ UNCHANGED << inputs, st, stack, iter_override, match_subgraph, frames, others, invoked >>

Next ==
    \/ CallRejected
    \/ CallAccepted
    \/ NextOverride
    \/ NextEnter
    \/ StepUnwind
    \/ StepOuter
    \/ StepInner
    \/ LoopExit

Spec == Init /\ [][Next]_vars

SpecSem == InitSem /\ [][Next]_vars

\* The code runs its loop to the end of each pull, and the caller keeps
\* pulling (at most MaxPullsAfterEnd pulls beyond the first None).
LiveGraphs(d) == GraphsOf(d, MaxNodes, MaxLiveEdges, 0)

InitLive ==
    /\ \E d \in BOOLEAN :
         /\ g0 \in LiveGraphs(d)
         /\ g1 \in LiveGraphs(d)
    /\ query = "subgraph_isomorphisms_iter"
    /\ node_match = "accept_all"
    /\ edge_match = "accept_all"
    /\ Fresh

SpecLive == InitLive /\ [][Next]_vars /\ WF_vars(Next)

\* The graph of n nodes without edges.
EdgelessGraph(d, n) ==
    [directed |-> d, n |-> n, edges |-> {}, nw |-> [i \in 0 .. (n - 1) |-> 0],
     ew |-> [e \in {} |-> 0]]

\* Sequences whose size estimate is asked: graphs of up to MaxHintNodes nodes,
\* g1 with one node less, as many or one more than g0.
InitHint ==
    /\ \E d \in BOOLEAN :
         \E n \in 0 .. MaxHintNodes :
            \E k \in {n - 1, n, n + 1} \cap (0 .. MaxHintNodes) :
               /\ g0 = EdgelessGraph(d, n)
               /\ g1 = EdgelessGraph(d, k)
    /\ query = "subgraph_isomorphisms_iter"
    /\ node_match = "accept_all"
    /\ edge_match = "accept_all"
    /\ Fresh

\* The caller asks the returned sequence for its size estimate.
SizeHint ==
    /\ pc = "idle"
    /\ is_none(hint)
    /\ hint' = Some(size_hint([st |-> st]))
    /\ UNCHANGED << inputs, pc, st, stack, iter_override, match_subgraph, result,
                    ret, yields, frames, after_end, trail, lifo, undone, invoked >>

NextHint ==
    \/ CallRejected
    \/ CallAccepted
    \/ SizeHint

SpecHint == InitHint /\ [][NextHint]_vars

\* A Match State over two copies of a graph, driven by hand: commit is
\* push_state, rollback is pop_state.
InitState ==
    /\ \E d \in BOOLEAN : g0 \in PlainGraphs(d)
    /\ g1 = g0
    /\ query = "Vf2State"
    /\ node_match = "NoSemanticMatch"
    /\ edge_match = "NoSemanticMatch"
    /\ pc = "state"
    /\ st = << Vf2State_new(g0), Vf2State_new(g1) >>
    /\ stack = <<>>
    /\ iter_override = None
    /\ match_subgraph = FALSE
    /\ result = None
    /\ ret = None
    /\ yields = <<>>
    /\ frames = 0
    /\ after_end = 0
    /\ hint = None
    /\ trail = <<>>
    /\ lifo = TRUE
    /\ undone = 0
    /\ invoked = NoCalls

search == << stack, iter_override, match_subgraph, result, ret, yields, frames,
            after_end, hint, invoked >>

\* commit(node_a, node_b) on two uncommitted nodes.
Commit ==
    /\ pc = "state"
    /\ \E a \in Nodes(g0), b \in Nodes(g1) :
          /\ st[1].mapping[a] = USIZE_MAX
          /\ st[2].mapping[b] = USIZE_MAX
          /\ st' = push_state(st, <<a, b>>)
          /\ trail' = Append(trail, <<a, b>>)
    /\ UNCHANGED << inputs, pc, search, lifo, undone >>

\* rollback of the latest commit.
RollbackLast ==
    /\ pc = "state"
    /\ undone < MaxRollbacks
    /\ trail # <<>>
    /\ st' = pop_state(st, trail[Len(trail)])
    /\ trail' = SubSeq(trail, 1, Len(trail) - 1)
    /\ undone' = undone + 1
    /\ UNCHANGED << inputs, pc, search, lifo >>

\* rollback of a committed pair that is not the latest.
RollbackEarlier ==
    /\ pc = "state"
    /\ undone < MaxRollbacks
    /\ \E k \in 1 .. (Len(trail) - 1) :
          /\ st' = pop_state(st, trail[k])
          /\ trail' = SubSeq(trail, 1, k - 1) \o SubSeq(trail, k + 1, Len(trail))
    /\ undone' = undone + 1
    /\ lifo' = FALSE
    /\ UNCHANGED << inputs, pc, search >>

NextState ==
    \/ Commit
    \/ RollbackLast
    \/ RollbackEarlier

SpecState == InitState /\ [][NextState]_vars

\* ------------------------------------------------ what the claims speak of
\* The graph without weights on n nodes with edge set E.
PlainGraph(d, n, E) ==
    [directed |-> d, n |-> n, edges |-> E, nw |-> [i \in 0 .. (n - 1) |-> 0],
     ew |-> [e \in E |-> 0]]

SingleEdge == PlainGraph(FALSE, 2, {<<0, 1>>})

Triangle == PlainGraph(FALSE, 3, {<<0, 1>>, <<0, 2>>, <<1, 2>>})

HasEdge(g, u, v) == IF g.directed THEN <<u, v>> \in g.edges
                    ELSE <<u, v>> \in g.edges \/ <<v, u>> \in g.edges

\* The injective maps f of A's nodes into B's nodes with u->v an edge of A
\* exactly when f(u)->f(v) is an edge of B.
Embeddings(A, B) ==
    {f \in [0 .. (A.n - 1) -> 0 .. (B.n - 1)] :
        /\ \A u, v \in 0 .. (A.n - 1) : u # v => f[u] # f[v]
        /\ \A u, v \in 0 .. (A.n - 1) : HasEdge(A, u, v) <=> HasEdge(B, f[u], f[v])}

\* The bijections among them.
Isomorphisms(A, B) == IF A.n = B.n THEN Embeddings(A, B) ELSE {}

Returned(q) == pc = "done" /\ query = q

\* The mappings the sequence has yielded so far.
Yielded == {yields[i][1] : i \in {k \in DOMAIN yields : yields[k] # <<>>}}

\* C1: is_isomorphic(A, B) returns true if and only if some bijection of A's
\* nodes onto B's nodes maps the edges of A exactly onto the edges of B.
C1_IsIsomorphicIffBijection ==
    Returned("is_isomorphic") => (ret = Some(TRUE) <=> Isomorphisms(g0, g1) # {})

\* is_isomorphic returned true for two different graphs on MaxNodes nodes.
C1_Witness ==
    /\ Returned("is_isomorphic")
    /\ ret = Some(TRUE)
    /\ g0.n = MaxNodes
    /\ g0.edges # g1.edges
    /\ g0.edges # {}

\* C2: is_isomorphic_subgraph(A, B) returns true if and only if A embeds into
\* B as a node-induced subgraph; it is true for a single edge in a triangle
\* and false for the triangle in the single edge.
C2_SubgraphIffInducedEmbedding ==
    Returned("is_isomorphic_subgraph") =>
        /\ ret = Some(TRUE) <=> Embeddings(g0, g1) # {}
        /\ (g0 = SingleEdge /\ g1 = Triangle) => ret = Some(TRUE)
        /\ (g0 = Triangle /\ g1 = SingleEdge) => ret = Some(FALSE)

\* is_isomorphic_subgraph found the single edge in the triangle.
C2_Witness ==
    /\ Returned("is_isomorphic_subgraph")
    /\ g0 = SingleEdge
    /\ g1 = Triangle
    /\ ret = Some(TRUE)
    /\ frames > 0

\* The sequence was returned and has been pulled until it returned None.
Exhausted ==
    /\ query = "subgraph_isomorphisms_iter"
    /\ ret = Some(TRUE)
    /\ pc = "idle"
    /\ after_end >= 1

\* The number of pulls that returned the mapping f.
TimesYielded(f) == Cardinality({i \in DOMAIN yields : yields[i] = Some(f)})

\* The number of pulls that returned a mapping.
MappingsYielded == Cardinality({i \in DOMAIN yields : is_some(yields[i])})

\* C3: with predicates that accept everything, pulling the sequence of
\* subgraph_isomorphisms_iter to exhaustion yields every node-induced
\* embedding of A into B exactly once and nothing else, and no mapping is
\* ever yielded twice; a single undirected edge against itself yields exactly
\* the identity and the swap.
C3_EveryEmbeddingExactlyOnce ==
    (query = "subgraph_isomorphisms_iter" /\ node_match = "accept_all"
        /\ edge_match = "accept_all") =>
        /\ \A i, j \in DOMAIN yields :
              (i # j /\ is_some(yields[i])) => yields[i] # yields[j]
        /\ Exhausted =>
              /\ \A f \in Embeddings(g0, g1) : TimesYielded(f) = 1
              /\ MappingsYielded = Cardinality(Embeddings(g0, g1))
        /\ (Exhausted /\ g0 = SingleEdge /\ g1 = SingleEdge) =>
              /\ MappingsYielded = 2
              /\ Yielded = {[i \in 0 .. 1 |-> i], [i \in 0 .. 1 |-> 1 - i]}

\* The sequence was exhausted after yielding six different embeddings.
C3_Witness ==
    /\ Exhausted
    /\ node_match = "accept_all"
    /\ Cardinality(Yielded) = 6
    /\ g0.edges # {}

\* m is a complete mapping of A into B: one entry per node of A, none the
\* sentinel, pairwise distinct indices of B, edges and non-edges preserved.
ValidMapping(m, A, B) ==
    /\ DOMAIN m = 0 .. (A.n - 1)
    /\ \A u \in DOMAIN m : m[u] # USIZE_MAX /\ m[u] \in 0 .. (B.n - 1)
    /\ \A u, v \in DOMAIN m : u # v => m[u] # m[v]
    /\ \A u, v \in DOMAIN m : HasEdge(A, u, v) <=> HasEdge(B, m[u], m[v])

\* C4: every mapping yielded has length A.node_count(), holds no unmapped
\* sentinel, has pairwise distinct entries in 0..B.node_count(), and maps
\* the edges of A exactly onto the edges of B between the images.
C4_YieldedMappingsAreValid ==
    \A i \in DOMAIN yields :
        is_some(yields[i]) => ValidMapping(unwrap(yields[i]), g0, g1)

\* A mapping of a graph with an edge into a larger graph was yielded.
C4_Witness ==
    /\ MappingsYielded >= 2
    /\ g0.n = 2
    /\ g1.n = 3
    /\ g0.edges # {}
    /\ g0.directed

\* C6: if A has zero nodes, is_isomorphic_subgraph(A, B) is true for any B,
\* and the sequence is returned and yields the empty mapping on the first
\* pull and None on every later pull, no frame ever being processed.
C6_EmptyGraphYieldsOnce ==
    (g0.n = 0 /\ query \in {"is_isomorphic_subgraph", "subgraph_isomorphisms_iter"}) =>
        /\ Returned("is_isomorphic_subgraph") => ret = Some(TRUE)
        /\ pc # "call" => ret # Some(FALSE)
        /\ pc # "running"
        /\ frames = 0
        /\ \A i \in DOMAIN yields :
              yields[i] = IF i = 1 THEN Some(<<>>) ELSE None

\* The sequence for an empty A and a non-empty B was pulled three times.
C6_Witness ==
    /\ g0.n = 0
    /\ g1.n > 0
    /\ query = "subgraph_isomorphisms_iter"
    /\ Len(yields) = 3

\* C7 as stated: whenever is_isomorphic(A, B) is true, is_isomorphic_matching
\* with a node predicate that rejects every pair returns false.
C7_RejectAllReturnsFalse ==
    (Returned("is_isomorphic_matching") /\ node_match = "reject_all"
        /\ is_isomorphic(g0, g1)) => ret = Some(FALSE)

\* C7 amended: whenever is_isomorphic(A, B) is true and A has at least one
\* node, is_isomorphic_matching with a node predicate that rejects every
\* pair returns false.
C7_RejectAllReturnsFalseNonEmpty ==
    (Returned("is_isomorphic_matching") /\ node_match = "reject_all"
        /\ is_isomorphic(g0, g1) /\ node_count(g0) > 0) => ret = Some(FALSE)

\* is_isomorphic_matching rejected two isomorphic graphs on MaxNodes nodes.
C7_Witness ==
    /\ Returned("is_isomorphic_matching")
    /\ node_match = "reject_all"
    /\ is_isomorphic(g0, g1)
    /\ g0.n = MaxNodes
    /\ frames > 0
    /\ ret = Some(FALSE)

\* The count precondition of the query fails.
CountMismatch ==
    IF query \in {"is_isomorphic", "is_isomorphic_matching"}
    THEN g0.n # g1.n \/ Cardinality(g0.edges) # Cardinality(g1.edges)
    ELSE g0.n > g1.n \/ Cardinality(g0.edges) > Cardinality(g1.edges)

\* C8: when the counts differ (exact queries) or A's counts exceed B's
\* (subgraph queries), the query returns false, or no sequence, as an
\* ordinary result: no Match State is constructed and no search step runs.
C8_CountMismatchReturnsFalse ==
    (CountMismatch /\ pc # "call") =>
        /\ pc = "done"
        /\ ret = Some(FALSE)
        /\ st = None
        /\ stack = <<>>
        /\ iter_override = None
        /\ frames = 0
        /\ yields = <<>>

\* subgraph_isomorphisms_iter returned no sequence because A has more edges.
C8_Witness ==
    /\ Returned("subgraph_isomorphisms_iter")
    /\ ret = Some(FALSE)
    /\ g0.n <= g1.n
    /\ Cardinality(g0.edges) > Cardinality(g1.edges)
    /\ st = None

\* C9: is_isomorphic(A, B) = is_isomorphic(B, A).
C9_IsIsomorphicSymmetric ==
    Returned("is_isomorphic") => ret = Some(is_isomorphic(g1, g0))

\* is_isomorphic returned true for two different directed graphs.
C9_Witness ==
    /\ Returned("is_isomorphic")
    /\ ret = Some(TRUE)
    /\ g0.directed
    /\ g0 # g1
    /\ Cardinality(g0.edges) = MaxArcs

\* C10: is_isomorphic(A, A) is true for every graph A.
C10_IsIsomorphicReflexive ==
    (Returned("is_isomorphic") /\ g0 = g1) => ret = Some(TRUE)

\* is_isomorphic(A, A) returned for a graph with a self-loop and an isolated
\* node.
C10_Witness ==
    /\ Returned("is_isomorphic")
    /\ g0 = g1
    /\ ret = Some(TRUE)
    /\ \E u \in Nodes(g0) : <<u, u>> \in g0.edges
    /\ \E u \in Nodes(g0) : \A v \in Nodes(g0) : ~HasEdge(g0, u, v) /\ ~HasEdge(g0, v, u)

\* f maps A onto B with every node pair and every edge pair accepted by the
\* predicates np and ep.
SemanticIsomorphism(f, A, B, np, ep) ==
    /\ f \in Isomorphisms(A, B)
    /\ \A u \in 0 .. (A.n - 1) : NodeWeightClosure(np, A.nw[u], B.nw[f[u]])
    /\ \A e \in A.edges :
          EdgeWeightClosure(ep, A.ew[e], B.ew[EdgeKey(B, f[e[1]], f[e[2]])])

\* C5: is_isomorphic_matching(A, B, node_pred, edge_pred) returns true if and
\* only if some structural isomorphism f has node_pred accept the weights of
\* u and f(u) for every node u and edge_pred accept the weights of u->v and
\* f(u)->f(v) for every edge u->v of A.
C5_MatchingIffSemanticIsomorphism ==
    Returned("is_isomorphic_matching") =>
        (ret = Some(TRUE) <=>
            \E f \in [0 .. (g0.n - 1) -> 0 .. (g1.n - 1)] :
                SemanticIsomorphism(f, g0, g1, node_match, edge_match))

\* is_isomorphic_matching returned true where only the swap of the two nodes
\* satisfies the node predicate and the edge weights differ.
C5_Witness ==
    /\ Returned("is_isomorphic_matching")
    /\ ret = Some(TRUE)
    /\ g0.n = 2
    /\ g0.nw[0] > g1.nw[0]
    /\ g0.edges # {}
    /\ \E e \in g0.edges : \E e1 \in g1.edges : g0.ew[e] < g1.ew[e1]

\* The frame on top of the stack is Inner: its pair is the candidate pair the
\* next iteration of the loop tests and, if feasible, commits.
CandidatePending ==
    /\ pc = "running"
    /\ stack # <<>>
    /\ stack[Len(stack)].kind = "Inner"

Candidate == stack[Len(stack)].nodes

SelfLoop(g, u) == <<u, u>> \in g.edges

\* The graph of one node, with or without a self-loop.
LoopNode == PlainGraph(FALSE, 1, {<<0, 0>>})

LoneNode == PlainGraph(FALSE, 1, {})

\* C11: a candidate pair (a, b) passes the feasibility check only if a has a
\* self-loop exactly when b has one; so is_isomorphic and
\* is_isomorphic_subgraph match a single node with a self-loop, in either
\* argument order, with a single node that has a self-loop and never with an
\* isolated single node.
C11_SelfLoopsMatchSelfLoops ==
    /\ (CandidatePending /\ is_feasible(st, Candidate, node_match, edge_match)) =>
          (SelfLoop(g0, Candidate[1]) <=> SelfLoop(g1, Candidate[2]))
    /\ (pc = "done" /\ query \in {"is_isomorphic", "is_isomorphic_subgraph"}
            /\ g0.n = 1 /\ g1.n = 1) =>
          (ret = Some(TRUE) <=> (SelfLoop(g0, 0) <=> SelfLoop(g1, 0)))
    /\ (pc = "done" /\ query \in {"is_isomorphic", "is_isomorphic_subgraph"}
            /\ {g0, g1} = {LoopNode, LoneNode}) => ret = Some(FALSE)

\* is_isomorphic_subgraph tested the pair of an isolated node and a node with
\* a self-loop, and returned false.
C11_Witness ==
    /\ Returned("is_isomorphic_subgraph")
    /\ g0 = LoneNode
    /\ g1 = LoopNode
    /\ frames >= 2
    /\ ret = Some(FALSE)

\* Every pull that entered the loop of isomorphisms returns.
PullTerminates == (pc = "running") ~> (pc # "running")

\* A returned sequence, pulled again and again, returns None after finitely
\* many pulls.
SequenceEnds ==
    (query = "subgraph_isomorphisms_iter" /\ ret = Some(TRUE)) ~> (after_end >= 1)

\* Once a pull has returned None every later pull returns None.
NoneAfterNone ==
    \A i, j \in DOMAIN yields : (i < j /\ is_none(yields[i])) => is_none(yields[j])

\* C12 as stated, the part a finite run refutes: once a pull has returned
\* None the stack is empty and every later pull returns None.
C12_ExhaustedStackIsEmpty ==
    after_end >= 1 => (stack = <<>> /\ NoneAfterNone)

\* C12 amended: every pull terminates, returning a mapping or None; after
\* finitely many pulls a pull returns None, with the stack empty if A has at
\* least one node (for a zero-node A the one-shot override answers and the
\* stack keeps its Outer frame); every later pull returns None too.
C12_PullsTerminateAndEnd ==
    /\ PullTerminates
    /\ SequenceEnds
    /\ [](after_end >= 1 => ((g0.n > 0 => stack = <<>>) /\ NoneAfterNone))

\* A sequence of several mappings was pulled MaxPullsAfterEnd times beyond
\* its first None.
C12_Witness ==
    /\ query = "subgraph_isomorphisms_iter"
    /\ after_end = MaxPullsAfterEnd + 1
    /\ MappingsYielded >= 2
    /\ g0.n = MaxNodes
    /\ stack = <<>>

\* Decimal digits, least significant first, of d * k + carry.
RECURSIVE MulDigits(_, _, _)
MulDigits(d, k, carry) ==
    IF d = <<>>
    THEN IF carry = 0 THEN <<>> ELSE <<carry % 10>> \o MulDigits(d, k, carry \div 10)
    ELSE LET p == Head(d) * k + carry
         IN  <<p % 10>> \o MulDigits(Tail(d), k, p \div 10)

RECURSIVE FactorialDigits(_)
FactorialDigits(n) ==
    IF n = 0 THEN <<1>> ELSE MulDigits(FactorialDigits(n - 1), n, 0)

\* n! as decimal digits, most significant first.
Factorial(n) ==
    LET f == FactorialDigits(n) IN [i \in 1 .. Len(f) |-> f[Len(f) + 1 - i]]

\* C13: the size estimate is (0, none), without failing, for every A of more
\* than 20 nodes and (0, n!) for every node count n from 0 to 20.
C13_SizeHintIsFactorialUpTo20 ==
    is_some(hint) =>
        /\ ~unwrap(hint).panicked
        /\ unwrap(hint).value =
              IF g0.n > 20 THEN <<0, None>> ELSE <<0, Some(Factorial(g0.n))>>

\* The same for every node count but 21.
SizeHintElsewhere == g0.n # 21 => C13_SizeHintIsFactorialUpTo20

\* The number written by decimal digits d, most significant first.
RECURSIVE DigitsValue(_)
DigitsValue(d) ==
    IF d = <<>> THEN 0 ELSE 10 * DigitsValue(SubSeq(d, 1, Len(d) - 1)) + d[Len(d)]

\* C14: for A with n <= 20 nodes, the number of mappings the sequence yields
\* never exceeds the upper bound n! its size estimate reports, for every B
\* the count precondition accepts, B with more nodes than A included.
C14_YieldsWithinSizeHint ==
    (query = "subgraph_isomorphisms_iter" /\ is_some(st) /\ g0.n <= 20) =>
        LET h == size_hint([st |-> st])
        IN  /\ ~h.panicked
            /\ is_some(h.value[2])
            /\ MappingsYielded <= DigitsValue(unwrap(h.value[2]))

\* The same for B with as many nodes as A.
YieldsWithinSizeHintEqualCounts == g0.n = g1.n => C14_YieldsWithinSizeHint

\* The Match State that committing the pairs of t, in order, builds from the
\* fresh one.
RECURSIVE Replay(_)
Replay(t) ==
    IF t = <<>>
    THEN << Vf2State_new(g0), Vf2State_new(g1) >>
    ELSE push_state(Replay(SubSeq(t, 1, Len(t) - 1)), t[Len(t)])

\* C15 as stated, for a sequence that starts at the fresh Match State: when
\* commits and rollbacks have brought generation back to 0, the mapping, the
\* frontier stamps and the frontier counts are those of the fresh state.
C15_SameGenerationSameState ==
    (pc = "state" /\ st[1].generation = 0) =>
        st = << Vf2State_new(g0), Vf2State_new(g1) >>

\* C15 amended: if every rollback undoes the latest commit not yet rolled
\* back, the Match State is the one its outstanding commits build from the
\* fresh state; so a sequence of commits and such rollbacks that ends with
\* the commits outstanding at its start leaves mapping, stamps and counts as
\* they were.
C15_LifoRollbackRestores ==
    (pc = "state" /\ lifo) => st = Replay(trail)

\* Back at the fresh state after MaxRollbacks last-in-first-out rollbacks on
\* a graph with edges.
C15_Witness ==
    /\ pc = "state"
    /\ lifo
    /\ undone = MaxRollbacks
    /\ trail = <<>>
    /\ g0.n = MaxNodes
    /\ g0.edges # {}

\* The nodes of side j (1 for A, 2 for B) committed by hand and not rolled
\* back.
HandCommitted(j) == {trail[k][j] : k \in DOMAIN trail}

\* Node i of side j is committed or has an incoming edge from a committed
\* node.
CommittedOrSuccessor(j, i) ==
    \/ i \in HandCommitted(j)
    \/ \E k \in HandCommitted(j) : HasEdge(st[j].graph, k, i)

\* C18: in every state reachable by commits and last-in-first-out rollbacks,
\* out_frontier[i] is non-zero if and only if node i is committed or has an
\* incoming edge from a committed node.
C18_OutStampIffCommittedOrSuccessor ==
    (pc = "state" /\ lifo) =>
        \A j \in 1 .. 2 : \A i \in Nodes(st[j].graph) :
            st[j].out[i] # 0 <=> CommittedOrSuccessor(j, i)

\* What the stamps do mark: the nodes with an incoming edge from a committed
\* node, committed or not.
OutStampIffSuccessor ==
    (pc = "state" /\ lifo) =>
        \A j \in 1 .. 2 : \A i \in Nodes(st[j].graph) :
            st[j].out[i] # 0 <=> \E k \in HandCommitted(j) : HasEdge(st[j].graph, k, i)

\* C19: in every state reachable by commits and last-in-first-out rollbacks,
\* out_size is the number of uncommitted nodes with a non-zero out stamp and,
\* for directed graphs, ins_size the number of uncommitted nodes with a
\* non-zero in stamp.
C19_SizesCountUncommittedStamped ==
    (pc = "state" /\ lifo) =>
        \A j \in 1 .. 2 :
            /\ st[j].out_size =
                  Cardinality({i \in Nodes(st[j].graph) :
                                  st[j].out[i] # 0 /\ i \notin HandCommitted(j)})
            /\ st[j].graph.directed =>
                  st[j].ins_size =
                      Cardinality({i \in Nodes(st[j].graph) :
                                      st[j].ins[i] # 0 /\ i \notin HandCommitted(j)})

\* What the sizes do count: every node with a non-zero stamp, committed or
\* not.
SizesCountStamped ==
    (pc = "state" /\ lifo) =>
        \A j \in 1 .. 2 :
            /\ st[j].out_size = Cardinality({i \in Nodes(st[j].graph) : st[j].out[i] # 0})
            /\ st[j].graph.directed =>
                  st[j].ins_size =
                      Cardinality({i \in Nodes(st[j].graph) : st[j].ins[i] # 0})

\* The nodes of side j (1 for A, 2 for B) the search has committed and not
\* rolled back: those of the Unwind frames on the stack.
SearchCommitted(j) ==
    {stack[k].nodes[j] : k \in {i \in DOMAIN stack : stack[i].kind = "Unwind"}}

\* The Match State between a feasible candidate's commit and the look-ahead
\* test that follows it.
JustCommitted == push_state(st, Candidate)

CommitPending ==
    CandidatePending /\ is_feasible(st, Candidate, node_match, edge_match)

\* In state s of side j, with C the committed nodes: generation counts the
\* set mapping entries, the set entries are those of C, and is_complete()
\* tells generation = node count.
GenerationCountsMapping(s, C) ==
    /\ s.generation = Cardinality({i \in DOMAIN s.mapping : s.mapping[i] # USIZE_MAX})
    /\ \A i \in Nodes(s.graph) : s.mapping[i] # USIZE_MAX <=> i \in C
    /\ is_complete(s) <=> s.generation = node_count(s.graph)

\* C16: in every state reachable during a search, in each of the two Match
\* States generation equals the number of non-sentinel mapping entries,
\* mapping[i] is set exactly when node i is committed, and is_complete()
\* holds exactly when generation equals the graph's node count.
C16_GenerationCountsMapping ==
    is_some(st) =>
        \A j \in 1 .. 2 :
            /\ GenerationCountsMapping(st[j], SearchCommitted(j))
            /\ CommitPending =>
                  GenerationCountsMapping(JustCommitted[j],
                                          SearchCommitted(j) \cup {Candidate[j]})

\* The search is two commits deep in graphs of MaxNodes nodes and about to
\* commit a third pair.
C16_Witness ==
    /\ CommitPending
    /\ st[1].generation = 2
    /\ g0.n = MaxNodes
    /\ g1.n = MaxNodes
    /\ is_complete(JustCommitted[1])

\* The two mappings of the pair s are inverse to each other, within range,
\* and no two nodes share an image.
MutuallyInverse(s) ==
    /\ \A i \in Nodes(s[1].graph), j \in Nodes(s[2].graph) :
          s[1].mapping[i] = j <=> s[2].mapping[j] = i
    /\ \A i \in Nodes(s[1].graph) :
          s[1].mapping[i] \in Nodes(s[2].graph) \cup {USIZE_MAX}
    /\ \A j \in Nodes(s[2].graph) :
          s[2].mapping[j] \in Nodes(s[1].graph) \cup {USIZE_MAX}
    /\ \A i, k \in Nodes(s[1].graph) :
          (i # k /\ s[1].mapping[i] # USIZE_MAX) => s[1].mapping[i] # s[1].mapping[k]

\* C17: in every state reachable during a search the two mappings are
\* mutually inverse partial injections: A.mapping[i] = j if and only if
\* B.mapping[j] = i; no B node is the image of two A nodes, and a candidate
\* pair is only committed when both of its nodes are unmapped.
C17_MappingsMutuallyInverse ==
    is_some(st) =>
        /\ MutuallyInverse(st)
        /\ CandidatePending =>
              /\ st[1].mapping[Candidate[1]] = USIZE_MAX
              /\ st[2].mapping[Candidate[2]] = USIZE_MAX
        /\ CommitPending => MutuallyInverse(JustCommitted)

\* The search is about to commit a pair of different indices on top of an
\* earlier commit.
C17_Witness ==
    /\ CommitPending
    /\ st[1].generation >= 1
    /\ Candidate[1] # Candidate[2]
    /\ \E i \in Nodes(g0) : st[1].mapping[i] \notin {i, USIZE_MAX}

\* The outgoing neighbours of node x on side j, and the already-mapped ones.
OutNeighbours(j, x) == {v \in Nodes(st[j].graph) : HasEdge(st[j].graph, x, v)}

MappedOutNeighbours(j, x) ==
    {v \in OutNeighbours(j, x) : st[j].mapping[v] # USIZE_MAX}

\* Some already-mapped outgoing neighbour of the candidate's node_a has an
\* image that is not an outgoing neighbour of its node_b.
MappedSuccessorMissing ==
    \E v \in MappedOutNeighbours(1, Candidate[1]) :
        ~HasEdge(g1, Candidate[2], st[1].mapping[v])

\* Both passes of the successor rule ran to their end, so that the rule
\* comes to its count comparison.
ComparisonReached ==
    /\ is_some(r_succ(st, Candidate, 0))
    /\ is_some(r_succ(st, Candidate, 1))

RejectedByComparison ==
    /\ ComparisonReached
    /\ unwrap(r_succ(st, Candidate, 0)) > unwrap(r_succ(st, Candidate, 1))

WideGraphs(d) == GraphsOf(d, MaxWideNodes, MaxWideArcs, 0)

InitWide ==
    /\ \/ /\ g0 \in PlainGraphs(TRUE)
          /\ g1 \in WideGraphs(TRUE)
          /\ query = "is_isomorphic_subgraph"
       \/ /\ g0 \in WideGraphs(FALSE)
          /\ g1 \in WideGraphs(FALSE)
          /\ query \in {"is_isomorphic", "is_isomorphic_subgraph"}
    /\ node_match = "NoSemanticMatch"
    /\ edge_match = "NoSemanticMatch"
    /\ Fresh

SpecWide == InitWide /\ [][Next]_vars

\* The already-mapped incoming neighbours of node x on side j.
MappedInNeighbours(j, x) ==
    {p \in Nodes(st[j].graph) :
        HasEdge(st[j].graph, p, x) /\ st[j].mapping[p] # USIZE_MAX}

\* Some already-mapped incoming neighbour of the candidate's node on side j
\* has an image without an edge into the candidate's node on the other side.
MappedPredecessorMissing(j) ==
    \E p \in MappedInNeighbours(j, Candidate[j]) :
        ~HasEdge(st[3 - j].graph, st[j].mapping[p], Candidate[3 - j])

\* The successor rule lets the candidate pass.
SuccessorRulePasses == ComparisonReached /\ ~RejectedByComparison

\* C21: for directed graphs the feasibility check rejects a pair whenever an
\* already-mapped incoming neighbour of node_a has an image with no edge into
\* node_b, or an already-mapped incoming neighbour of node_b has a preimage
\* with no edge into node_a, so no yielded mapping sends an edge of A to a
\* pair of B joined only in the opposite direction; for undirected graphs the
\* predecessor rule is not evaluated: the successor rule alone decides the
\* structural part.
C21_PredecessorRule ==
    /\ (CandidatePending /\ g0.directed
            /\ (MappedPredecessorMissing(1) \/ MappedPredecessorMissing(2))) =>
          ~is_feasible(st, Candidate, node_match, edge_match)
    /\ g0.directed =>
          \A i \in DOMAIN yields :
              is_some(yields[i]) =>
                  \A e \in g0.edges :
                      <<unwrap(yields[i])[e[1]], unwrap(yields[i])[e[2]]>> \in g1.edges
    /\ (CandidatePending /\ ~g0.directed) =>
          (syntactic_feasible(st, Candidate) <=> SuccessorRulePasses)

\* On directed graphs a candidate passes the successor rule and is rejected
\* for a mapped predecessor whose image has no edge into node_b.
C21_Witness ==
    /\ CandidatePending
    /\ g0.directed
    /\ SuccessorRulePasses
    /\ MappedPredecessorMissing(1)

\* The look-ahead of the claim on a pair of Match States: in exact mode the
\* out- and in-counts of A and B are equal, in subgraph mode A's are at most
\* B's.
LookAheadHolds(s) ==
    IF match_subgraph
    THEN s[1].out_size <= s[2].out_size /\ s[1].ins_size <= s[2].ins_size
    ELSE s[1].out_size = s[2].out_size /\ s[1].ins_size = s[2].ins_size

\* The frames below the top of the stack.
Below == SubSeq(stack, 1, Len(stack) - 1)

TopFrame == stack[Len(stack)]

\* The step replaces the top frame by the next alternative of the same
\* A-node and the same list, with a larger B-index, or by nothing.
ScanContinues ==
    \/ stack' = Below
    \/ \E nx \in Nodes(g1) :
          /\ nx > Candidate[2]
          /\ stack' = Append(Below, Inner(<<Candidate[1], nx>>, TopFrame.open_list))

\* C22: the step of a feasible pair deepens the search, pushing
\* Unwind{pair, list} and then Outer over the committed states, exactly when
\* the look-ahead holds of the committed states; when it fails the pair is
\* rolled back within the same step, neither Unwind nor Outer is pushed, and
\* the scan continues with the next B-candidate of the same A-node.
C22_DeepensOnlyIfLookAheadHolds ==
    [][CommitPending =>
          IF LookAheadHolds(JustCommitted)
          THEN /\ st' = JustCommitted
               /\ stack' = Below \o << Unwind(Candidate, TopFrame.open_list), Outer >>
          ELSE /\ st' = st
               /\ ScanContinues]_vars

\* A feasible pair of a subgraph search whose commit fails the look-ahead
\* while a further B-candidate exists for the same A-node.
C22_Witness ==
    /\ CommitPending
    /\ match_subgraph
    /\ ~LookAheadHolds(JustCommitted)
    /\ is_some(next_from_ix(st, Candidate[2], TopFrame.open_list))

\* The unmapped nodes of side j that are members of the list with this tag:
\* the nodes with an out stamp, the nodes with an in stamp (an undirected
\* graph has no in stamps), or all nodes.
ListMembers(j, tag) ==
    {i \in Nodes(st[j].graph) :
        /\ st[j].mapping[i] = USIZE_MAX
        /\ CASE tag = "Out"   -> st[j].out[i] > 0
             [] tag = "In"    -> i \in DOMAIN st[j].ins /\ st[j].ins[i] > 0
             [] tag = "Other" -> TRUE}

Least(S) == CHOOSE x \in S : \A y \in S : x <= y

\* Both sides have an unmapped member of the list.
ListProvidesPair(tag) == ListMembers(1, tag) # {} /\ ListMembers(2, tag) # {}

\* The first list, in the order out, in, remainder, that provides a pair.
FirstList ==
    CASE ListProvidesPair("Out") -> "Out"
      [] ~ListProvidesPair("Out") /\ ListProvidesPair("In") -> "In"
      [] OTHER -> "Other"

OuterPending ==
    /\ pc = "running"
    /\ stack # <<>>
    /\ TopFrame.kind = "Outer"

\* C23: an Outer step consults the lists in the order out, in, remainder and
\* uses the first one in which both A and B have an unmapped member; it
\* replaces the Outer frame by the Inner frame of the least-index unmapped
\* member of that list on each side, tagged with the list; when no list
\* provides a pair the Outer frame is dropped and nothing replaces it. The
\* Match States are left alone.
C23_OuterPicksLeastOfFirstList ==
    [][OuterPending =>
          /\ st' = st
          /\ IF \E tag \in {"Out", "In", "Other"} : ListProvidesPair(tag)
             THEN stack' = Append(Below,
                      Inner(<<Least(ListMembers(1, FirstList)),
                              Least(ListMembers(2, FirstList))>>, FirstList))
             ELSE stack' = Below]_vars

\* An Outer step where B has an open out-node and A has none, and the in
\* list provides the pair.
C23_Witness ==
    /\ OuterPending
    /\ ListMembers(2, "Out") # {}
    /\ ~ListProvidesPair("Out")
    /\ ListProvidesPair("In")

\* The step leaves an Inner frame on top of the frames below the current top.
NextAlternative ==
    /\ stack' # <<>>
    /\ Len(stack') = Len(stack)
    /\ stack'[Len(stack')].kind = "Inner"

UnwindPending ==
    /\ pc = "running"
    /\ stack # <<>>
    /\ TopFrame.kind = "Unwind"

\* C24: the B-candidates tried for one A-node have strictly increasing
\* indices, and each is unmapped and a member of the frame's list when it is
\* tried; the A-node and the list tag are the same in every alternative, both
\* when the previous candidate was infeasible or pruned (Inner to Inner) and
\* when the scan resumes after backtracking (Unwind to Inner).
C24_AlternativesIncreaseInSameList ==
    /\ [](CandidatePending =>
            /\ Candidate[1] \in ListMembers(1, TopFrame.open_list)
            /\ Candidate[2] \in ListMembers(2, TopFrame.open_list))
    /\ [][((CandidatePending \/ UnwindPending) /\ NextAlternative) =>
            /\ stack'[Len(stack')].nodes[1] = TopFrame.nodes[1]
            /\ stack'[Len(stack')].nodes[2] > TopFrame.nodes[2]
            /\ stack'[Len(stack')].open_list = TopFrame.open_list]_vars

\* The scan of the out list resumes after backtracking: the Unwind frame's
\* pair is rolled back and a further B-candidate exists.
C24_Witness ==
    /\ UnwindPending
    /\ TopFrame.open_list = "Out"
    /\ is_some(next_from_ix(pop_state(st, TopFrame.nodes), TopFrame.nodes[2],
                            TopFrame.open_list))

\* The node predicate is in use and rejects the candidate pair.
NodePredicateRejects ==
    /\ NodeMatcher_enabled(node_match)
    /\ ~NodeMatcher_eq(node_match, g0, g1, Candidate[1], Candidate[2])

\* C25: the feasibility check evaluates the structural rules, then the node
\* predicate, then the edge predicate, and stops at the first failure: a
\* pair that fails a structural rule reaches no predicate, a pair that
\* passes them reaches the node predicate if there is one, and a pair the
\* node predicate rejects does not reach the edge predicate; a rejected pair
\* leaves both Match States as they were.
C25_RulesInOrderStopAtFirstFailure ==
    [][CandidatePending =>
          /\ ~syntactic_feasible(st, Candidate) => invoked' = NoCalls
          /\ syntactic_feasible(st, Candidate) =>
                invoked'.node = NodeMatcher_enabled(node_match)
          /\ NodePredicateRejects => ~invoked'.edge
          /\ ~is_feasible(st, Candidate, node_match, edge_match) => st' = st]_vars

\* The node predicate rejects a structurally feasible pair of self-loop
\* nodes while an edge predicate is in use: the loop edges are not compared.
C25_Witness ==
    /\ CandidatePending
    /\ syntactic_feasible(st, Candidate)
    /\ NodePredicateRejects
    /\ EdgeMatcher_enabled(edge_match)
    /\ SelfLoop(g0, Candidate[1])

\* The step commits a pair that makes A's mapping complete.
CompletingCommit == CommitPending /\ is_complete(JustCommitted[1])

\* C26: a commit that completes A's mapping finds no result recorded and
\* records the mapping (or returns it at the end of the same step); a
\* recorded result stays as it is, with the pull still running, until a step
\* returns it as the pull's item, also on the steps that leave the loop body
\* by `continue`; and a pull yields a mapping only so. Hence every completing
\* commit leads to exactly one yield of its mapping.
C26_CompleteMappingYieldedOnce ==
    [][/\ CompletingCommit =>
             /\ is_none(result)
             /\ \/ result' = Some(JustCommitted[1].mapping) /\ yields' = yields
                \/ /\ yields' = Append(yields, Some(JustCommitted[1].mapping))
                   /\ result' = None
       /\ (pc = "running" /\ is_some(result)) =>
             \/ result' = result /\ yields' = yields /\ pc' = "running"
             \/ yields' = Append(yields, result) /\ result' = None
       /\ (pc = "running" /\ is_none(result) /\ ~CompletingCommit) =>
             yields' \in {yields, Append(yields, None)}]_vars

\* A completed mapping is recorded and the next step backtracks without
\* reaching the test at the end of the loop body.
C26_Witness ==
    /\ UnwindPending
    /\ is_some(result)
    /\ is_none(next_from_ix(pop_state(st, TopFrame.nodes), TopFrame.nodes[2],
                            TopFrame.open_list))

\* The Unwind frames of the stack, bottom first.
UnwindFrames == SelectSeq(stack, LAMBDA f : f.kind = "Unwind")

\* The pairs of the Unwind frames, bottom first.
UnwindPairs == [i \in 1 .. Len(UnwindFrames) |-> UnwindFrames[i].nodes]

\* C27: between frame steps, and at every yield, all frames below the top of
\* the stack are Unwind frames (the top may be an Unwind, Outer or Inner
\* frame); the number of Unwind frames is the generation of both Match
\* States; and rollbacks are last-in-first-out: the Match States are those
\* the pairs of the Unwind frames build, bottom first, from the fresh states.
C27_StackIsUnwindsBelowOneTop ==
    st # None =>
        /\ \A i \in 1 .. (Len(stack) - 1) : stack[i].kind = "Unwind"
        /\ st[1].generation = Len(UnwindFrames)
        /\ st[2].generation = Len(UnwindFrames)
        /\ st = Replay(UnwindPairs)

\* A mapping was just yielded with an Unwind frame under an Inner frame.
C27_Witness ==
    /\ pc = "idle"
    /\ yields # <<>>
    /\ is_some(yields[Len(yields)])
    /\ Len(stack) = 2
    /\ TopFrame.kind = "Inner"
    /\ st[1].generation = 1

\* C28: when the search is exhausted, the stack being empty, both Match
\* States are as freshly constructed: generation 0, every node unmapped,
\* every stamp 0 and both counts 0.
C28_ExhaustedStatesAreFresh ==
    (st # None /\ stack = <<>>) =>
        /\ st = << Vf2State_new(g0), Vf2State_new(g1) >>
        /\ \A j \in 1 .. 2 :
              /\ st[j].generation = 0
              /\ st[j].out_size = 0
              /\ st[j].ins_size = 0
              /\ \A i \in Nodes(st[j].graph) :
                    /\ st[j].mapping[i] = USIZE_MAX
                    /\ st[j].out[i] = 0
                    /\ i \in DOMAIN st[j].ins => st[j].ins[i] = 0

\* The search of a graph with an edge is exhausted after mappings were
\* yielded.
C28_Witness ==
    /\ pc = "idle"
    /\ st # None
    /\ stack = <<>>
    /\ after_end >= 1
    /\ Len(yields) >= 3
    /\ g0.edges # {}

=============================================================================
